---- MODULE Spec2Model ----
(***************************************************************************)
(* Model of dante_tokenizer/evaluate/evaluate.py:                          *)
(*   longest_common_token_sequence, evaluate_sentence, evaluate_dataset.   *)
(*                                                                         *)
(* Two specifications share the module.                                    *)
(*   SpecSentence  one call of evaluate_sentence, with the table of        *)
(*                 longest_common_token_sequence filled one cell a step.   *)
(*   Spec          one call of evaluate_dataset, one sentence pair a step. *)
(*                                                                         *)
(* Python lists are 0-based, TLA+ sequences 1-based: left[i - 1] of the    *)
(* source is left[i] here, pred_tokens[i] of the source is                 *)
(* pred_tokens[i_sent + 1] here.  The table L keeps the source's indices   *)
(* 0..n_left and 0..n_right.                                               *)
(*                                                                         *)
(* Floating point values are kept as classes: a per-sentence score is      *)
(* "zero" or "pos"; a mean is "nan", "zero" or "pos"; a standard deviation *)
(* is "nan", "zero" or "nonneg".  A denominator keeps its integer part and *)
(* the number of epsilon terms (1e-9) added to it, which is what decides   *)
(* whether a division is defined.                                          *)
(***************************************************************************)
EXTENDS Integers, Sequences, FiniteSets

\* ---------------------------------------------------------------- bounds

\* longest sentence of SpecSentence
MaxLen == 3

\* most sentences per side of a dataset of Spec
MaxSents == 2

\* tokens are opaque values compared by equality only
Tokens == {"a", "b", "c"}

\* the sentences the datasets of Spec are built from
DsSentences == {<<>>, <<"a">>, <<"b">>, <<"a", "b">>}

Sentences == UNION {[1..k -> Tokens] : k \in 0..MaxLen}

Datasets == UNION {[1..k -> DsSentences] : k \in 0..MaxSents}

\* ----------------------------------------------------------------- state

VARIABLES
    \* evaluate_sentence / longest_common_token_sequence
    spc,        \* position: "idle", "call", "fill", "counts", "done"
    left,       \* pred_tokens of evaluate_sentence, left of the LCS
    right,      \* true_tokens of evaluate_sentence, right of the LCS
    L,          \* the table
    i,          \* outer loop index
    j,          \* inner loop index
    writes,     \* number of assignments L[i][j] = ... executed so far
    lcs_ret,    \* value returned by longest_common_token_sequence
    s_ret,      \* value returned by evaluate_sentence
    \* evaluate_dataset
    pc,         \* position: "idle", "call", "loop", "return", "done", or an error
    pred_tokens,
    true_tokens,
    complete_metrics,
    n_sents,
    i_sent,     \* the loop index i of evaluate_dataset
    true_positives,
    false_positives,
    false_negatives,
    incorrect_sentences_ids,
    precision_scores,
    recall_scores,
    f_scores,
    precision,
    recall,
    f_score,
    result      \* the returned tuple, <<>> while nothing is returned

svars == <<spc, left, right, L, i, j, writes, lcs_ret, s_ret>>

dvars == <<pc, pred_tokens, true_tokens, complete_metrics, n_sents, i_sent,
           true_positives, false_positives, false_negatives,
           incorrect_sentences_ids, precision_scores, recall_scores, f_scores,
           precision, recall, f_score, result>>

vars == <<svars, dvars>>

\* --------------------------------------- longest_common_token_sequence

\* the initial content of every cell of L
None == -1

Max(x, y) == IF x >= y THEN x ELSE y

\* L = [[None] * (n_right + 1) for i in range(n_left + 1)]
NewTable(n_left, n_right) == [a \in 0..n_left |-> [b \in 0..n_right |-> None]]

CellValue_NoIncrement(Lt, lf, rt, a, b) ==
    IF a = 0 \/ b = 0 THEN 0
    ELSE IF lf[a] = rt[b] THEN Lt[a - 1][b - 1]
    ELSE Max(Lt[a - 1][b], Lt[a][b - 1])

CellValue_UpOnly(Lt, lf, rt, a, b) ==
    IF a = 0 \/ b = 0 THEN 0
    ELSE IF lf[a] = rt[b] THEN Lt[a - 1][b - 1] + 1
    ELSE Lt[a - 1][b]

CellValue_Contiguous(Lt, lf, rt, a, b) ==
    IF a = 0 \/ b = 0 THEN 0
    ELSE IF lf[a] = rt[b] THEN Lt[a - 1][b - 1] + 1
    ELSE 0

\* the value the loop body assigns to L[a][b]
CellValue(Lt, lf, rt, a, b) ==
    IF a = 0 \/ b = 0 THEN 0
    ELSE IF lf[a] = rt[b] THEN Lt[a - 1][b - 1] + 1
    ELSE Max(Lt[a - 1][b], Lt[a][b - 1])

\* the two nested loops, from the k-th cell in row-major order on
RECURSIVE FillTable(_, _, _, _)
FillTable(Lt, lf, rt, k) ==
    LET n_left == Len(lf)
        n_right == Len(rt)
        a == k \div (n_right + 1)
        b == k % (n_right + 1)
    IN  IF k = (n_left + 1) * (n_right + 1) THEN Lt
        ELSE FillTable([Lt EXCEPT ![a][b] = CellValue(Lt, lf, rt, a, b)], lf, rt, k + 1)

longest_common_token_sequence(lf, rt) ==
    FillTable(NewTable(Len(lf), Len(rt)), lf, rt, 0)[Len(lf)][Len(rt)]

\* ---------------------------------------------------- evaluate_sentence

SentenceCounts_Reversed(pred, true, tp) == <<tp, tp - Len(pred), tp - Len(true)>>

SentenceCounts_Swapped(pred, true, tp) == <<tp, Len(true) - tp, Len(pred) - tp>>

\* (true_positives, false_positives, false_negatives) from the LCS length
SentenceCounts(pred, true, tp) == <<tp, Len(pred) - tp, Len(true) - tp>>

evaluate_sentence(pred, true) ==
    SentenceCounts(pred, true, longest_common_token_sequence(pred, true))

\* ------------------------------------------- SpecSentence: the actions

InitDatasetIdle ==
    /\ pc = "idle"
    /\ pred_tokens = <<>>
    /\ true_tokens = <<>>
    /\ complete_metrics = FALSE
    /\ n_sents = 0
    /\ i_sent = 0
    /\ true_positives = 0
    /\ false_positives = 0
    /\ false_negatives = 0
    /\ incorrect_sentences_ids = <<>>
    /\ precision_scores = <<>>
    /\ recall_scores = <<>>
    /\ f_scores = <<>>
    /\ precision = <<>>
    /\ recall = <<>>
    /\ f_score = <<>>
    /\ result = <<>>

InitSentence ==
    /\ spc = "call"
    /\ left \in Sentences
    /\ right \in Sentences
    /\ L = NewTable(0, 0)
    /\ i = 0
    /\ j = 0
    /\ writes = 0
    /\ lcs_ret = None
    /\ s_ret = <<>>
    /\ InitDatasetIdle

\* evaluate_sentence calls longest_common_token_sequence, which allocates L
\* and enters the loops
CallLCS ==
    /\ spc = "call"
    /\ L' = NewTable(Len(left), Len(right))
    /\ i' = 0
    /\ j' = 0
    /\ spc' = "fill"
    /\ UNCHANGED <<left, right, writes, lcs_ret, s_ret, dvars>>

\* one execution of the inner loop body, then the step of the two loops
FillCell ==
    /\ spc = "fill"
    /\ i <= Len(left)
    /\ L' = [L EXCEPT ![i][j] = CellValue(L, left, right, i, j)]
    /\ writes' = writes + 1
    /\ IF j < Len(right)
          THEN i' = i /\ j' = j + 1
          ELSE i' = i + 1 /\ j' = 0
    /\ UNCHANGED <<spc, left, right, lcs_ret, s_ret, dvars>>

\* return L[n_left][n_right]
ReturnLCS ==
    /\ spc = "fill"
    /\ i = Len(left) + 1
    /\ lcs_ret' = L[Len(left)][Len(right)]
    /\ spc' = "counts"
    /\ UNCHANGED <<left, right, L, i, j, writes, s_ret, dvars>>

\* the rest of evaluate_sentence
ReturnSentence ==
    /\ spc = "counts"
    /\ s_ret' = SentenceCounts(left, right, lcs_ret)
    /\ spc' = "done"
    /\ UNCHANGED <<left, right, L, i, j, writes, lcs_ret, dvars>>

NextSentence == CallLCS \/ FillCell \/ ReturnLCS \/ ReturnSentence

SpecSentence == InitSentence /\ [][NextSentence]_vars

\* ------------------------------------------------------ evaluate_dataset

LengthsMatch_Always(pred, true) == TRUE

\* assert len(pred_tokens) == len(true_tokens)
LengthsMatch(pred, true) == Len(pred) = Len(true)

Accumulate_Overwrite(total, x) == x

\* total += x
Accumulate(total, x) == total + x

IsIncorrect_FpOnly(fp, fn) == fp > 0

\* if fp > 0 or fn > 0
IsIncorrect(fp, fn) == fp > 0 \/ fn > 0

\* the number of epsilon terms (1e-9 each) the source adds to a denominator
EpsTerms == 1

\* k + 1e-9: the integer part and the epsilon terms of a denominator
PlusEps(k) == [int |-> k, eps |-> EpsTerms]

\* num / den of Python for num >= 0 and den >= 0: ZeroDivisionError on a
\* zero denominator, else the class of the quotient
TrueDiv(num, den) ==
    IF den.int = 0 /\ den.eps = 0 THEN "ZeroDivisionError"
    ELSE IF num = 0 THEN "zero"
    ELSE "pos"

\* tp / (tp + fp + 1e-9), and tp / (tp + fn + 1e-9) with fn for fp
Ratio(tp, fp) == TrueDiv(tp, PlusEps(tp + fp))

\* 2 * p * r / (p + r + 1e-9) for score classes p and r
FScore(p, r) ==
    TrueDiv(IF p = "pos" /\ r = "pos" THEN 2 ELSE 0,
            PlusEps(IF p = "pos" \/ r = "pos" THEN 1 ELSE 0))

\* np.mean of a list of non-negative scores: nan for the empty list
NpMean(scores) ==
    IF Len(scores) = 0 THEN "nan"
    ELSE IF \A k \in 1..Len(scores) : scores[k] = "zero" THEN "zero"
    ELSE "pos"

\* np.std of a list of non-negative scores: nan for the empty list
NpStd(scores) ==
    IF Len(scores) = 0 THEN "nan"
    ELSE IF Len(scores) = 1 \/ \A k \in 1..Len(scores) : scores[k] = "zero" THEN "zero"
    ELSE "nonneg"

InitSentenceIdle ==
    /\ spc = "idle"
    /\ left = <<>>
    /\ right = <<>>
    /\ L = NewTable(0, 0)
    /\ i = 0
    /\ j = 0
    /\ writes = 0
    /\ lcs_ret = None
    /\ s_ret = <<>>

Init ==
    /\ pc = "call"
    /\ pred_tokens \in Datasets
    /\ true_tokens \in Datasets
    /\ complete_metrics \in BOOLEAN
    /\ n_sents = 0
    /\ i_sent = 0
    /\ true_positives = 0
    /\ false_positives = 0
    /\ false_negatives = 0
    /\ incorrect_sentences_ids = <<>>
    /\ precision_scores = <<>>
    /\ recall_scores = <<>>
    /\ f_scores = <<>>
    /\ precision = <<>>
    /\ recall = <<>>
    /\ f_score = <<>>
    /\ result = <<>>
    /\ InitSentenceIdle

\* the assertion and the initialisation of the locals
Enter ==
    /\ pc = "call"
    /\ IF LengthsMatch(pred_tokens, true_tokens)
          THEN /\ pc' = "loop"
               /\ n_sents' = Len(pred_tokens)
               /\ true_positives' = 0
               /\ false_positives' = 0
               /\ false_negatives' = 0
               /\ incorrect_sentences_ids' = <<>>
               /\ precision_scores' = <<>>
               /\ recall_scores' = <<>>
               /\ f_scores' = <<>>
               /\ i_sent' = 0
          ELSE /\ pc' = "AssertionError"
               /\ UNCHANGED <<n_sents, true_positives, false_positives,
                              false_negatives, incorrect_sentences_ids,
                              precision_scores, recall_scores, f_scores, i_sent>>
    /\ UNCHANGED <<pred_tokens, true_tokens, complete_metrics,
                   precision, recall, f_score, result, svars>>

\* one iteration of "for i in range(n_sents)"
LoopBody ==
    /\ pc = "loop"
    /\ i_sent < n_sents
    /\ IF i_sent + 1 > Len(true_tokens)
          THEN /\ pc' = "IndexError"
               /\ UNCHANGED <<i_sent, true_positives, false_positives,
                              false_negatives, incorrect_sentences_ids,
                              precision_scores, recall_scores, f_scores>>
          ELSE LET r == evaluate_sentence(pred_tokens[i_sent + 1], true_tokens[i_sent + 1])
                   tp == r[1]
                   fp == r[2]
                   fn == r[3]
                   p == Ratio(tp, fp)
                   rc == Ratio(tp, fn)
                   f == FScore(p, rc)
               IN  IF "ZeroDivisionError" \in {p, rc, f}
                      THEN /\ pc' = "ZeroDivisionError"
                           /\ UNCHANGED <<i_sent, true_positives, false_positives,
                                          false_negatives, incorrect_sentences_ids,
                                          precision_scores, recall_scores, f_scores>>
                      ELSE /\ true_positives' = Accumulate(true_positives, tp)
                           /\ false_positives' = Accumulate(false_positives, fp)
                           /\ false_negatives' = Accumulate(false_negatives, fn)
                           /\ precision_scores' = Append(precision_scores, p)
                           /\ recall_scores' = Append(recall_scores, rc)
                           /\ f_scores' = Append(f_scores, f)
                           /\ incorrect_sentences_ids' =
                                  IF IsIncorrect(fp, fn)
                                     THEN Append(incorrect_sentences_ids, i_sent)
                                     ELSE incorrect_sentences_ids
                           /\ i_sent' = i_sent + 1
                           /\ pc' = "loop"
    /\ UNCHANGED <<pred_tokens, true_tokens, complete_metrics, n_sents,
                   precision, recall, f_score, result, svars>>

\* the loop is over: the means and standard deviations
Aggregate ==
    /\ pc = "loop"
    /\ i_sent = n_sents
    /\ precision' = <<NpMean(precision_scores), NpStd(precision_scores)>>
    /\ recall' = <<NpMean(recall_scores), NpStd(recall_scores)>>
    /\ f_score' = <<NpMean(f_scores), NpStd(f_scores)>>
    /\ pc' = "return"
    /\ UNCHANGED <<pred_tokens, true_tokens, complete_metrics, n_sents, i_sent,
                   true_positives, false_positives, false_negatives,
                   incorrect_sentences_ids, precision_scores, recall_scores,
                   f_scores, result, svars>>

\* if complete_metrics: return precision, recall, f_score, additional_metrics
ReturnComplete ==
    /\ pc = "return"
    /\ complete_metrics
    /\ result' = <<precision, recall, f_score,
                   [true_positives |-> true_positives,
                    false_positives |-> false_positives,
                    false_negatives |-> false_negatives,
                    incorrect_sentences_ids |-> incorrect_sentences_ids]>>
    /\ pc' = "done"
    /\ UNCHANGED <<pred_tokens, true_tokens, complete_metrics, n_sents, i_sent,
                   true_positives, false_positives, false_negatives,
                   incorrect_sentences_ids, precision_scores, recall_scores,
                   f_scores, precision, recall, f_score, svars>>

\* return precision, recall, f_score
ReturnBasic ==
    /\ pc = "return"
    /\ ~complete_metrics
    /\ result' = <<precision, recall, f_score>>
    /\ pc' = "done"
    /\ UNCHANGED <<pred_tokens, true_tokens, complete_metrics, n_sents, i_sent,
                   true_positives, false_positives, false_negatives,
                   incorrect_sentences_ids, precision_scores, recall_scores,
                   f_scores, precision, recall, f_score, svars>>

Next == Enter \/ LoopBody \/ Aggregate \/ ReturnComplete \/ ReturnBasic

Spec == Init /\ [][Next]_vars

\* =================================================================
\* Properties of evaluate_sentence and longest_common_token_sequence
\* (specification SpecSentence)
\* =================================================================

\* the subsequence of s at the positions of the index set S, in order
RECURSIVE PickFrom(_, _, _)
PickFrom(s, S, k) ==
    IF k > Len(s) THEN <<>>
    ELSE (IF k \in S THEN <<s[k]>> ELSE <<>>) \o PickFrom(s, S, k + 1)

Subsequences(s) == {PickFrom(s, S, 1) : S \in SUBSET (1..Len(s))}

SetMax(S) == CHOOSE x \in S : \A y \in S : y <= x

\* the largest k with index lists i1 < ... < ik in lf and j1 < ... < jk in rt
\* such that lf[it] = rt[jt] for every t
LongestCommonSubsequenceLength(lf, rt) ==
    SetMax({Len(x) : x \in Subsequences(lf) \cap Subsequences(rt)})

Prefix(s, k) == SubSeq(s, 1, k)

LcsReturned == spc \in {"counts", "done"}

\* C1: longest_common_token_sequence(left, right) returns the length of a
\* longest common subsequence of left and right (matches need not be
\* contiguous), and 0 when either sequence is empty.
C1_ReturnsLongestCommonSubsequence ==
    LcsReturned =>
        /\ lcs_ret = LongestCommonSubsequenceLength(left, right)
        /\ (left = <<>> \/ right = <<>>) => lcs_ret = 0

\* a non-contiguous match: "a" and "c" of <<a, b, c>> against <<a, c, b>>
C1_Witness ==
    /\ spc = "done"
    /\ left = <<"a", "b", "c">>
    /\ right = <<"a", "c", "b">>
    /\ lcs_ret = 2

\* C2: evaluate_sentence(pred, true) returns (TP, FP, FN) with TP the LCS
\* length, FP = len(pred) - TP and FN = len(true) - TP, so TP + FP = len(pred)
\* and TP + FN = len(true); two equal two-token sentences give (2, 0, 0) and
\* [a, b, c] against [a, c] gives (2, 1, 0).
C2_SentenceCounts ==
    spc = "done" =>
        /\ Len(s_ret) = 3
        /\ s_ret[1] = lcs_ret
        /\ s_ret[2] = Len(left) - s_ret[1]
        /\ s_ret[3] = Len(right) - s_ret[1]
        /\ s_ret[1] + s_ret[2] = Len(left)
        /\ s_ret[1] + s_ret[3] = Len(right)
        /\ s_ret = evaluate_sentence(left, right)
        /\ (left = <<"a", "b", "c">> /\ right = <<"a", "c">>) => s_ret = <<2, 1, 0>>
        /\ (Len(left) = 2 /\ left[1] # left[2] /\ right = left) => s_ret = <<2, 0, 0>>

C2_Witness ==
    /\ spc = "done"
    /\ left = <<"a", "b", "c">>
    /\ right = <<"a", "c">>
    /\ s_ret = <<2, 1, 0>>

\* C3: the triple of evaluate_sentence satisfies
\* 0 <= TP <= min(len(pred), len(true)), FP >= 0 and FN >= 0.
C3_CountsInRange ==
    spc = "done" =>
        /\ 0 <= s_ret[1]
        /\ s_ret[1] <= Len(left)
        /\ s_ret[1] <= Len(right)
        /\ s_ret[2] >= 0
        /\ s_ret[3] >= 0

\* a sentence pair with matched, spurious and missed tokens at once
C3_Witness ==
    /\ spc = "done"
    /\ s_ret[1] > 0
    /\ s_ret[2] > 0
    /\ s_ret[3] > 0

\* C7: longest_common_token_sequence(A, A) = len(A), for A with repeated
\* tokens and for the empty A too.
C7_SelfLcsIsLength ==
    (LcsReturned /\ left = right) => lcs_ret = Len(left)

\* a sentence with a repeated token against itself
C7_Witness ==
    /\ spc = "done"
    /\ left = <<"a", "b", "a">>
    /\ right = left
    /\ lcs_ret = 3

\* C8: longest_common_token_sequence(A, B) = longest_common_token_sequence(B, A).
C8_Symmetric ==
    LcsReturned => lcs_ret = longest_common_token_sequence(right, left)

\* two different sentences of different lengths with a common token
C8_Witness ==
    /\ spc = "done"
    /\ Len(left) = 3
    /\ Len(right) = 1
    /\ lcs_ret = 1
    /\ longest_common_token_sequence(right, left) = 1

\* the row-major position of cell (a, b)
CellIndex(a, b) == a * (Len(right) + 1) + b

TableCells == (0..Len(left)) \X (0..Len(right))

\* the cells the loop body is about to read are assigned; the cells assigned
\* are those before (i, j) in row-major order, one write each; after the
\* loops every cell is written and L[n_left][n_right] is returned
C10_TableState ==
    /\ (spc = "fill" /\ i <= Len(left) /\ i >= 1 /\ j >= 1) =>
           /\ L[i - 1][j - 1] # None
           /\ L[i - 1][j] # None
           /\ L[i][j - 1] # None
    /\ spc = "fill" => writes = CellIndex(i, j)
    /\ spc \in {"fill", "counts", "done"} =>
           \A c \in TableCells : (L[c[1]][c[2]] # None) <=> (CellIndex(c[1], c[2]) < writes)
    /\ LcsReturned =>
           /\ writes = (Len(left) + 1) * (Len(right) + 1)
           /\ lcs_ret = L[Len(left)][Len(right)]

\* a step in the loops writes into L[i][j] the LCS length of the prefixes
\* left[0..i-1] and right[0..j-1] and leaves every other cell as it is; no
\* later step changes the table
C10_TableStep ==
    /\ (spc = "fill" /\ i <= Len(left)) =>
           \A c \in TableCells :
               L'[c[1]][c[2]] =
                   IF c = <<i, j>>
                      THEN LongestCommonSubsequenceLength(Prefix(left, i), Prefix(right, j))
                      ELSE L[c[1]][c[2]]
    /\ (spc = "fill" /\ i > Len(left)) => L' = L
    /\ LcsReturned => L' = L

\* C10: while the table is filled in row-major order, every cell read is
\* already assigned (never None), every cell once written holds the LCS
\* length of the prefixes left[0..i-1] and right[0..j-1], and the loops end
\* after exactly (n+1)*(m+1) cell writes with L[n][m] as the result.
C10_TableFill == [] C10_TableState /\ [][C10_TableStep]_vars

C10_Witness ==
    /\ spc = "done"
    /\ Len(left) = 3
    /\ Len(right) = 3
    /\ writes = 16
    /\ L[3][3] = 2
    /\ L[1][3] = 1
    /\ L[2][1] = 0

\* =================================================================
\* Properties of evaluate_dataset (specification Spec)
\* =================================================================

LengthsDiffer == Len(pred_tokens) # Len(true_tokens)

\* the counts of sentence pair k (0-based, as in the source)
PairCounts(k) == evaluate_sentence(pred_tokens[k + 1], true_tokens[k + 1])

\* the sum of component c of the counts of pairs 0..k-1
RECURSIVE SumCounts(_, _)
SumCounts(c, k) == IF k = 0 THEN 0 ELSE SumCounts(c, k - 1) + PairCounts(k - 1)[c]

\* the number of tokens of the first k sentences of a dataset side
RECURSIVE TotalTokens(_, _)
TotalTokens(ds, k) == IF k = 0 THEN 0 ELSE TotalTokens(ds, k - 1) + Len(ds[k])

InLoopOrAfter == pc \in {"loop", "return", "done"}

\* C4: evaluate_dataset fails with an assertion error whenever the predicted
\* and the true list differ in length, whatever complete_metrics is; it fails
\* before any sentence pair is evaluated and returns no metrics.
C4_MismatchFails ==
    /\ LengthsDiffer => pc \in {"call", "AssertionError"}
    /\ pc = "AssertionError" =>
           /\ LengthsDiffer
           /\ i_sent = 0
           /\ precision_scores = <<>>
           /\ recall_scores = <<>>
           /\ f_scores = <<>>
           /\ true_positives = 0
           /\ false_positives = 0
           /\ false_negatives = 0
           /\ precision = <<>>
           /\ result = <<>>

C4_Witness ==
    /\ pc = "AssertionError"
    /\ complete_metrics
    /\ Len(pred_tokens) = 2
    /\ Len(true_tokens) = 1

\* C5: for equal-length inputs incorrect_sentences_ids holds index k if and
\* only if pair k has FP > 0 or FN > 0, each index once, in increasing order;
\* it is empty when the predicted list is identical to the true list.
C5_IncorrectSentencesIds ==
    InLoopOrAfter =>
        LET ids == incorrect_sentences_ids
        IN  /\ \A k \in 0..(i_sent - 1) :
                   (\E x \in 1..Len(ids) : ids[x] = k)
                       <=> (PairCounts(k)[2] > 0 \/ PairCounts(k)[3] > 0)
            /\ \A x \in 1..Len(ids) : ids[x] \in 0..(i_sent - 1)
            /\ \A x, y \in 1..Len(ids) : x < y => ids[x] < ids[y]
            /\ pc \in {"return", "done"} => i_sent = Len(pred_tokens)
            /\ (pc = "done" /\ complete_metrics) =>
                   result[4].incorrect_sentences_ids = ids
            /\ pred_tokens = true_tokens => ids = <<>>

\* the first pair is correct, the second only misses a token
C5_Witness ==
    /\ pc = "done"
    /\ complete_metrics
    /\ Len(pred_tokens) = 2
    /\ pred_tokens[1] = true_tokens[1]
    /\ pred_tokens[2] = <<>>
    /\ true_tokens[2] = <<"a">>
    /\ result[4].incorrect_sentences_ids = <<1>>

\* C6: after the first k pairs the running totals are the sums of the
\* per-sentence TP, FP and FN of pairs 0..k-1; the structure returned with
\* complete_metrics holds the dataset-wide sums, with TP + FP the number of
\* predicted tokens and TP + FN the number of true tokens.
C6_RunningTotals ==
    InLoopOrAfter =>
        /\ true_positives = SumCounts(1, i_sent)
        /\ false_positives = SumCounts(2, i_sent)
        /\ false_negatives = SumCounts(3, i_sent)
        /\ pc \in {"return", "done"} => i_sent = Len(pred_tokens)
        /\ (pc = "done" /\ complete_metrics) =>
               LET m == result[4]
                   n == Len(pred_tokens)
               IN  /\ m.true_positives = SumCounts(1, n)
                   /\ m.false_positives = SumCounts(2, n)
                   /\ m.false_negatives = SumCounts(3, n)
                   /\ m.true_positives + m.false_positives = TotalTokens(pred_tokens, n)
                   /\ m.true_positives + m.false_negatives = TotalTokens(true_tokens, n)

\* two pairs that each add to the totals
C6_Witness ==
    /\ pc = "done"
    /\ complete_metrics
    /\ pred_tokens = << <<"a", "b">>, <<"a">> >>
    /\ true_tokens = << <<"a">>, <<"a", "b">> >>
    /\ result[4].true_positives = 2
    /\ result[4].false_positives = 1
    /\ result[4].false_negatives = 1

\* pair k (0-based) has no token on one side or on both
EmptySide(k) == pred_tokens[k + 1] = <<>> \/ true_tokens[k + 1] = <<>>

ZeroValued == <<"zero", "zero">>

\* C9: for equal-length inputs evaluate_dataset completes without error, also
\* with sentences that have no tokens and with no sentences at all; the
\* metrics of such empty inputs are zero-valued, never undefined.
C9_EmptyInputsZeroValued ==
    /\ pc \notin {"ZeroDivisionError", "IndexError"}
    /\ pc = "AssertionError" => LengthsDiffer
    /\ InLoopOrAfter =>
           \A k \in 0..(i_sent - 1) :
               EmptySide(k) =>
                   /\ precision_scores[k + 1] = "zero"
                   /\ recall_scores[k + 1] = "zero"
                   /\ f_scores[k + 1] = "zero"
    /\ (pc = "done" /\ \A k \in 0..(i_sent - 1) : EmptySide(k)) =>
           /\ result[1] = ZeroValued
           /\ result[2] = ZeroValued
           /\ result[3] = ZeroValued

\* The statement of C9 restricted to datasets with at least one sentence
\* holds: only np.mean and np.std of the empty score lists are undefined.
NonEmptyDatasetZeroValued ==
    Len(pred_tokens) > 0 => C9_EmptyInputsZeroValued

====
